---- MODULE Spec2Model ----
(***************************************************************************)
(* EnhancedMcpGateway (src/src/services/metaLlamaService.js, lines         *)
(* 373-988): the multi-provider request router with health-aware fallback. *)
(*                                                                         *)
(* JavaScript runs every stretch of code between two awaits atomically, so *)
(* one action of this model is one such stretch: it starts at the entry of *)
(* routeRequest or at the resolution of an awaited adapter call and runs   *)
(* to the next awaited adapter call or to the end of routeRequest.         *)
(* Several requests and the health monitor interleave at the awaits.       *)
(*                                                                         *)
(* Time: only awaited adapter calls take time.  req[r].elapsed is          *)
(* Date.now() - startTime of request r, the sum of the latencies of the    *)
(* adapter calls that request has awaited so far.                          *)
(***************************************************************************)
EXTENDS Integers, Sequences, FiniteSets, TLC

\* ---------------------------------------------------------------- bounds
MaxRequests == 1      \* routeRequest calls issued in one behaviour
MaxInFlight == 2      \* routeRequest calls that can be in progress at once
MaxLatency == 1       \* an adapter call takes 1..MaxLatency time units
MaxTicks == 2         \* health-monitor ticks fired in one behaviour
MaxCalls == 3         \* direct updateServiceMetrics calls in one behaviour
MaxRegistrations == 2 \* registerService calls in one behaviour

Reqs == 1..MaxInFlight
Latencies == 1..MaxLatency
Ticks == 1..MaxTicks

\* fixed-point scale of avgResponseTime: every halving of updateServiceMetrics
\* is exact while an adapter record has at most MaxRequests + MaxCalls
\* recorded requests
RECURSIVE Pow2(_)
Pow2(n) == IF n = 0 THEN 1 ELSE 2 * Pow2(n - 1)
Scale == Pow2(MaxRequests + MaxCalls)

\* the response times handed to updateServiceMetrics by a direct call
ResponseTimes == 1..(MaxLatency + 1)

\* ------------------------------------------------------- program constants
\* initializeServices registers the adapters in this order; a Map iterates
\* in insertion order
ServiceOrder == <<"openrouter", "cerebras", "meta-llama">>
ServiceNames == {ServiceOrder[i] : i \in 1..Len(ServiceOrder)}

RequestTypes == {"mindmap", "code", "node-code", "prd", "unknown-kind"}
Priorities == {"speed", "quality", "absent"}
Complexities == {"low", "comprehensive", "absent"}
Payloads == [priority : Priorities, complexity : Complexities]
\* the payloads tried for a request type vary the one field its route reads
PayloadsFor(requestType) ==
    CASE requestType = "mindmap" -> {p \in Payloads : p.complexity = "absent"}
      [] requestType \in {"code", "node-code", "prd"} -> {p \in Payloads : p.priority = "absent"}
      [] OTHER -> {p \in Payloads : p.priority = "absent" /\ p.complexity = "absent"}

\* what an awaited adapter generate call can do: resolve with content,
\* resolve with a payload that carries no content, or throw
Outcomes == {"ok", "nocontent", "throw"}
\* openrouter's makeRequest hands back response.data and meta-llama's one
\* builds its own object: the router treats either as a success whatever it
\* holds.  Only the cerebras payload is looked into (routeMindmapRequest).
OutcomesOf(serviceName) ==
    IF serviceName = "cerebras" THEN Outcomes ELSE {"ok", "throw"}
\* what an awaited healthCheck can do
HealthOutcomes == {"healthy", "unhealthy", "throw"}

NoHealth == "none"
NoError == [type |-> "none", service |-> "none"]
NoResult == [provider |-> "none", source |-> "none", model |-> "none",
             content |-> "none", fallback |-> FALSE, originalError |-> NoError]

\* services      this.services, the adapter records by name
\* serviceHealth this.serviceHealth, the status of the last healthCheck of
\*               each adapter ("none" before the first one)
\* req, issued   the routeRequest calls in progress and their number so far
\* tick          the runs of checkAllServicesHealth
\* calls         per adapter, the updateServiceMetrics calls applied to its
\*               current record (history)
\* regLog        the registerService calls made and how each ended (history)
\* definition    which of the two definitions of EnhancedMcpGateway is
\*               loaded: "first" (lines 373-986) or "second" (996-1393)
VARIABLES services, req, tick, issued, serviceHealth, calls, regLog, definition

vars == <<services, req, tick, issued, serviceHealth, calls, regLog, definition>>

\* ----------------------------------------------------------- registry
registerService(name) ==
    [healthy |-> TRUE, requestCount |-> 0, avgResponseTime |-> 0, errors |-> 0]

isServiceHealthy(serviceName) ==
    serviceName \in DOMAIN services /\ services[serviceName].healthy

\* variant: the count is written from a value read before another call's
\* update, so that the second update of a record is lost
updateServiceMetrics_StaleCount(svcs, serviceName, responseTime, success) ==
    IF serviceName \in DOMAIN svcs
    THEN [svcs EXCEPT ![serviceName] =
            [@ EXCEPT !.requestCount = IF @ = 0 THEN 1 ELSE @,
                      !.avgResponseTime = (@ + responseTime * Scale) \div 2,
                      !.errors = IF success THEN @ ELSE @ + 1]]
    ELSE svcs

\* variant: the success flag is read the wrong way round
updateServiceMetrics_CountsSuccessesAsErrors(svcs, serviceName, responseTime, success) ==
    IF serviceName \in DOMAIN svcs
    THEN [svcs EXCEPT ![serviceName] =
            [@ EXCEPT !.requestCount = @ + 1,
                      !.avgResponseTime = (@ + responseTime * Scale) \div 2,
                      !.errors = IF success THEN @ + 1 ELSE @]]
    ELSE svcs

\* variant: only a successful request moves the average
updateServiceMetrics_AveragesSuccessesOnly(svcs, serviceName, responseTime, success) ==
    IF serviceName \in DOMAIN svcs
    THEN [svcs EXCEPT ![serviceName] =
            [@ EXCEPT !.requestCount = @ + 1,
                      !.avgResponseTime = IF success THEN (@ + responseTime * Scale) \div 2
                                          ELSE @,
                      !.errors = IF success THEN @ ELSE @ + 1]]
    ELSE svcs

updateServiceMetrics(svcs, serviceName, responseTime, success) ==
    IF serviceName \in DOMAIN svcs
    THEN [svcs EXCEPT ![serviceName] =
            [@ EXCEPT !.requestCount = @ + 1,
                      !.avgResponseTime = (@ + responseTime * Scale) \div 2,
                      !.errors = IF success THEN @ ELSE @ + 1]]
    ELSE svcs

\* ----------------------------------------------------------- gateway status
Digit == <<"0", "1", "2", "3", "4", "5", "6", "7", "8", "9">>

RECURSIVE IntToString(_)
IntToString(n) ==
    IF n < 10 THEN Digit[n + 1] ELSE IntToString(n \div 10) \o Digit[(n % 10) + 1]

\* (num / den).toFixed(2) for num >= 0, den > 0
ToFixed2(num, den) ==
    LET h == (200 * num + den) \div (2 * den)
    IN  IntToString(h \div 100) \o "." \o Digit[((h \div 10) % 10) + 1] \o Digit[(h % 10) + 1]

\* the errorRate getGatewayStatus reports for an adapter record
errorRate(data) ==
    IF data.requestCount > 0
    THEN ToFixed2(data.errors * 100, data.requestCount) \o "%"
    ELSE "0%"

\* the totalRequests getGatewayStatus reports
RECURSIVE SumRequestCount(_, _)
SumRequestCount(svcs, names) ==
    IF names = {} THEN 0
    ELSE LET name == CHOOSE n \in names : TRUE
         IN  svcs[name].requestCount + SumRequestCount(svcs, names \ {name})

totalRequests == SumRequestCount(services, DOMAIN services)

\* ----------------------------------------------------------- routing policy
\* destructuring defaults of the route*Request methods
PriorityOf(payload) ==
    IF payload.priority = "absent" THEN "speed" ELSE payload.priority

ComplexityOf(payload, default) ==
    IF payload.complexity = "absent" THEN default ELSE payload.complexity

\* variant: cerebras is preferred only while openrouter is down
routeMindmapRequest_PrefersOpenrouter(payload) ==
    IF PriorityOf(payload) = "speed" /\ isServiceHealthy("cerebras")
       /\ ~isServiceHealthy("openrouter")
    THEN "cerebras" ELSE "openrouter"

\* each route*Request gives the adapter its first awaited call goes to
routeMindmapRequest(payload) ==
    IF PriorityOf(payload) = "speed" /\ isServiceHealthy("cerebras")
    THEN "cerebras" ELSE "openrouter"

\* variant: the specialised adapter is chosen without the health test
routeCodeRequest_IgnoresHealth(payload) ==
    IF ComplexityOf(payload, "medium") # "low" THEN "meta-llama" ELSE "openrouter"

routeCodeRequest(payload) ==
    IF isServiceHealthy("meta-llama") /\ ComplexityOf(payload, "medium") # "low"
    THEN "meta-llama" ELSE "openrouter"

\* variant: meta-llama is preferred whatever the complexity
routeNodeCodeRequest_IgnoresComplexity(payload) ==
    IF isServiceHealthy("meta-llama") THEN "meta-llama" ELSE "openrouter"

routeNodeCodeRequest(payload) ==
    IF isServiceHealthy("meta-llama") /\ ComplexityOf(payload, "medium") # "low"
    THEN "meta-llama" ELSE "openrouter"

\* variant: meta-llama is preferred for every complexity but 'low', as in
\* the code routes
routePRDRequest_AnyButLow(payload) ==
    IF ComplexityOf(payload, "standard") # "low" /\ isServiceHealthy("meta-llama")
    THEN "meta-llama" ELSE "openrouter"

routePRDRequest(payload) ==
    IF ComplexityOf(payload, "standard") = "comprehensive" /\ isServiceHealthy("meta-llama")
    THEN "meta-llama" ELSE "openrouter"

\* variant: every return statement of the route*Request methods carries
\* the literal of the last one
routeProvider_CopiedLiteral(requestType, stage) == "openrouter"

\* the provider literal of the return statements of the route*Request
\* methods: the one after the specialised call (stage "primary") and the
\* one after the openrouter call that follows it (stage "catchall")
routeProvider(requestType, stage) ==
    IF stage = "catchall" THEN "openrouter"
    ELSE IF requestType = "mindmap" THEN "cerebras"
    ELSE "meta-llama"

\* the model field the route*Request methods put on their result
ModelOf(requestType, provider) ==
    CASE requestType = "mindmap" /\ provider = "cerebras" -> "llama3.1-8b"
      [] requestType = "mindmap" -> "llama-4-scout"
      [] requestType \in {"code", "node-code"} /\ provider = "meta-llama" -> "llama-4-scout"
      [] requestType \in {"code", "node-code"} -> "llama-4-maverick"
      [] OTHER -> "none"

getFallbackOrder(requestType) ==
    IF requestType \in {"mindmap", "code", "prd"}
    THEN <<"openrouter", "meta-llama">>
    ELSE <<"openrouter">>

\* variant: the switch has a default branch that calls openrouter
FallbackCalls_DefaultBranch(requestType, serviceName) ==
    CASE requestType = "mindmap" -> serviceName = "openrouter"
      [] requestType \in {"code", "prd"} -> serviceName \in {"openrouter", "meta-llama"}
      [] OTHER -> serviceName = "openrouter"

\* the switch of handleRoutingFallback: does it make a call for this
\* request type and candidate
FallbackCalls(requestType, serviceName) ==
    CASE requestType = "mindmap" -> serviceName = "openrouter"
      [] requestType \in {"code", "prd"} -> serviceName \in {"openrouter", "meta-llama"}
      [] OTHER -> FALSE

\* ----------------------------------------------------------- request state
\* req[r] is one routeRequest call: its position (pc, stage, inflight,
\* fbIdx), its locals (requestType, payload, elapsed, originalError), what
\* it gave its caller (result or error), and two histories kept for the
\* properties: attempts, the adapter generate calls it made, and walked,
\* what handleRoutingFallback did with each fallback candidate.
IdleReq ==
    [pc |-> "idle", requestType |-> "none",
     payload |-> [priority |-> "absent", complexity |-> "absent"],
     stage |-> "none", inflight |-> "none", fbIdx |-> 0, elapsed |-> 0,
     latency |-> 0,
     originalError |-> NoError, result |-> NoResult, error |-> NoError,
     attempts |-> <<>>, walked |-> <<>>]

\* the state the constructor leaves: initializeServices has registered
\* the three adapters and started the monitor
InitGateway ==
    /\ services = [name \in ServiceNames |-> registerService(name)]
    /\ serviceHealth = [name \in ServiceNames |-> NoHealth]
    /\ req = [r \in Reqs |-> IdleReq]
    /\ tick = [t \in Ticks |-> 0]
    /\ issued = 0
    /\ calls = [name \in ServiceNames |-> <<>>]
    /\ regLog = [i \in 1..Len(ServiceOrder) |->
                    [name |-> ServiceOrder[i], error |-> "none"]]

Init == InitGateway /\ definition = "first"

\* an awaited adapter generate call is issued
\* variant: an adapter call is not started while a run of the health
\* monitor is in progress
StartCall_WaitsForMonitor(rec, serviceName, stage) ==
    IF \E t \in Ticks : tick[t] \in 1..Len(ServiceOrder)
    THEN [rec EXCEPT !.pc = "waiting", !.stage = stage, !.inflight = "none"]
    ELSE [rec EXCEPT !.pc = "calling", !.stage = stage, !.inflight = serviceName,
                     !.attempts = Append(@, [service |-> serviceName, stage |-> stage,
                                             healthy |-> isServiceHealthy(serviceName),
                                             outcome |-> "pending"])]

StartCall(rec, serviceName, stage) ==
    [rec EXCEPT !.pc = "calling", !.stage = stage, !.inflight = serviceName,
                !.attempts = Append(@, [service |-> serviceName, stage |-> stage,
                                        healthy |-> isServiceHealthy(serviceName),
                                        outcome |-> "pending"])]

\* variant: the loop body has no health test
Disposition_IgnoresHealth(requestType, serviceName) ==
    IF ~FallbackCalls(requestType, serviceName) THEN "nocall" ELSE "called"

\* what the loop body of handleRoutingFallback does with one candidate
Disposition(requestType, serviceName) ==
    IF ~isServiceHealthy(serviceName) THEN "unhealthy"
    ELSE IF ~FallbackCalls(requestType, serviceName) THEN "nocall"
    ELSE "called"

\* variant: the catch of the loop body rethrows, so the first fallback
\* candidate that throws ends the walk
handleRoutingFallback_StopsAtFirstFailure(rec, from) ==
    LET order == getFallbackOrder(rec.requestType)
        callable == {i \in from..Len(order) :
                        Disposition(rec.requestType, order[i]) = "called"}
        n == IF callable = {} \/ from > 1 THEN 0
             ELSE CHOOSE i \in callable : \A j \in callable : i <= j
        last == IF from > 1 THEN from - 1 ELSE IF n = 0 THEN Len(order) ELSE n
        seen == [i \in 1..(last - from + 1) |->
                    [service |-> order[from + i - 1],
                     disposition |-> Disposition(rec.requestType, order[from + i - 1])]]
        rec1 == [rec EXCEPT !.walked = @ \o seen]
    IN  IF n = 0
        THEN [rec1 EXCEPT !.pc = "done", !.stage = "none", !.inflight = "none",
                          !.error = [type |-> "AllServicesFailed", service |-> "none"]]
        ELSE StartCall([rec1 EXCEPT !.fbIdx = n], order[n], "fallback")

\* variant: the throw after the loop is missing, so the method falls off
\* its end and resolves to undefined
handleRoutingFallback_NoFinalThrow(rec, from) ==
    LET order == getFallbackOrder(rec.requestType)
        callable == {i \in from..Len(order) :
                        Disposition(rec.requestType, order[i]) = "called"}
        n == IF callable = {} THEN 0
             ELSE CHOOSE i \in callable : \A j \in callable : i <= j
        last == IF n = 0 THEN Len(order) ELSE n
        seen == [i \in 1..(last - from + 1) |->
                    [service |-> order[from + i - 1],
                     disposition |-> Disposition(rec.requestType, order[from + i - 1])]]
        rec1 == [rec EXCEPT !.walked = @ \o seen]
    IN  IF n = 0
        THEN [rec1 EXCEPT !.pc = "done", !.stage = "none", !.inflight = "none"]
        ELSE StartCall([rec1 EXCEPT !.fbIdx = n], order[n], "fallback")

\* the for loop of handleRoutingFallback, entered or resumed at index from:
\* runs to the next awaited call, or past the last candidate to the throw
\* variant: when the walk ends without a result, the candidate called
\* last is called again
handleRoutingFallback_RetriesLast(rec, from) ==
    LET order == getFallbackOrder(rec.requestType)
        callable == {i \in from..Len(order) :
                        Disposition(rec.requestType, order[i]) = "called"}
        n == IF callable = {} THEN 0
             ELSE CHOOSE i \in callable : \A j \in callable : i <= j
        last == IF n = 0 THEN Len(order) ELSE n
        seen == [i \in 1..(last - from + 1) |->
                    [service |-> order[from + i - 1],
                     disposition |-> Disposition(rec.requestType, order[from + i - 1])]]
        rec1 == [rec EXCEPT !.walked = @ \o seen]
    IN  IF n = 0
        THEN IF rec.fbIdx > 0
             THEN StartCall(rec1, order[rec.fbIdx], "fallback")
             ELSE [rec1 EXCEPT !.pc = "done", !.stage = "none", !.inflight = "none",
                               !.error = [type |-> "AllServicesFailed", service |-> "none"]]
        ELSE StartCall([rec1 EXCEPT !.fbIdx = n], order[n], "fallback")

\* variant: the calls of all the candidates that can be called are started
\* together, and the first one is awaited
handleRoutingFallback_AllAtOnce(rec, from) ==
    LET order == getFallbackOrder(rec.requestType)
        callable == {i \in from..Len(order) :
                        Disposition(rec.requestType, order[i]) = "called"}
        n == IF callable = {} THEN 0
             ELSE CHOOSE i \in callable : \A j \in callable : i <= j
        seen == [i \in 1..(Len(order) - from + 1) |->
                    [service |-> order[from + i - 1],
                     disposition |-> Disposition(rec.requestType, order[from + i - 1])]]
        started == SelectSeq(seen, LAMBDA e : e.disposition = "called")
        rec1 == [rec EXCEPT !.walked = @ \o seen,
                            !.attempts = @ \o [i \in 1..(Len(started) - 1) |->
                                [service |-> started[i + 1].service, stage |-> "fallback",
                                 healthy |-> TRUE, outcome |-> "pending"]]]
    IN  IF n = 0
        THEN [rec1 EXCEPT !.pc = "done", !.stage = "none", !.inflight = "none",
                          !.error = [type |-> "AllServicesFailed", service |-> "none"]]
        ELSE StartCall([rec1 EXCEPT !.fbIdx = n], order[n], "fallback")

handleRoutingFallback(rec, from) ==
    LET order == getFallbackOrder(rec.requestType)
        callable == {i \in from..Len(order) :
                        Disposition(rec.requestType, order[i]) = "called"}
        n == IF callable = {} THEN 0
             ELSE CHOOSE i \in callable : \A j \in callable : i <= j
        last == IF n = 0 THEN Len(order) ELSE n
        seen == [i \in 1..(last - from + 1) |->
                    [service |-> order[from + i - 1],
                     disposition |-> Disposition(rec.requestType, order[from + i - 1])]]
        rec1 == [rec EXCEPT !.walked = @ \o seen]
    IN  IF n = 0
        THEN [rec1 EXCEPT !.pc = "done", !.stage = "none", !.inflight = "none",
                          !.error = [type |-> "AllServicesFailed", service |-> "none"]]
        ELSE StartCall([rec1 EXCEPT !.fbIdx = n], order[n], "fallback")

\* the fields of the error handleRoutingFallback throws after its loop:
\* the message names the request type and originalError.message
AggregateMessage(rec) ==
    [requestType |-> rec.requestType, originalError |-> rec.originalError]

\* the record of a routeRequest call at its first await, or at its end
\* when it makes no adapter call
EnterRoute(idle, requestType, payload) ==
    LET rec == [idle EXCEPT !.requestType = requestType, !.payload = payload]
        first == CASE requestType = "mindmap" -> routeMindmapRequest(payload)
                   [] requestType = "code" -> routeCodeRequest(payload)
                   [] requestType = "node-code" /\ definition = "first" ->
                         routeNodeCodeRequest(payload)
                   [] requestType = "prd" -> routePRDRequest(payload)
                   [] OTHER -> "none"
    IN  IF first = "none"
        THEN handleRoutingFallback(
                [rec EXCEPT !.originalError =
                    [type |-> "UnknownRequestType", service |-> "none"]], 1)
        ELSE StartCall(rec, first,
                       IF first = "openrouter" THEN "catchall" ELSE "primary")

\* routeRequest, from its entry to its first await
RouteRequest(r, requestType, payload) ==
    /\ req[r].pc = "idle"
    /\ \A q \in Reqs : q < r => req[q].pc # "idle"
    /\ issued < MaxRequests
    /\ issued' = issued + 1
    /\ req' = [req EXCEPT ![r] = EnterRoute(req[r], requestType, payload)]
    /\ UNCHANGED <<services, tick, serviceHealth, calls, regLog, definition>>

\* the caller has taken the result or the error of a finished call
Respond(r) ==
    /\ req[r].pc = "done"
    /\ req' = [req EXCEPT ![r] = IdleReq]
    /\ UNCHANGED <<services, tick, issued, serviceHealth, calls, regLog, definition>>

\* does the specialised first call of route*Request count as a success:
\* the first definition of routeMindmapRequest throws on a cerebras payload
\* without content (lines 482-485), the second returns whatever cerebras
\* resolved to (lines 1097-1098)
PrimarySucceeds(requestType, outcome) ==
    \/ outcome = "ok"
    \/ outcome = "nocontent" /\ (requestType # "mindmap" \/ definition = "second")

\* variant: an adapter that served a request is flagged healthy
RecordMetrics_MarksHealthy(serviceName, responseTime, success) ==
    /\ services' = [updateServiceMetrics(services, serviceName, responseTime, success)
                        EXCEPT ![serviceName].healthy = TRUE]
    /\ calls' = IF serviceName \in DOMAIN services
                THEN [calls EXCEPT ![serviceName] =
                        Append(@, [responseTime |-> responseTime, success |-> success])]
                ELSE calls

\* routeRequest calls updateServiceMetrics (line 451)
RecordMetrics(serviceName, responseTime, success) ==
    /\ services' = updateServiceMetrics(services, serviceName, responseTime, success)
    /\ calls' = IF serviceName \in DOMAIN services
                THEN [calls EXCEPT ![serviceName] =
                        Append(@, [responseTime |-> responseTime, success |-> success])]
                ELSE calls

\* the awaited adapter call of request r resolves or throws, and the
\* request runs on to its next await or to its end
GenerateReturns(r, outcome, latency) ==
    /\ req[r].pc = "calling"
    /\ LET n == Len(req[r].attempts)
           svc == req[r].inflight
           rec == [req[r] EXCEPT !.elapsed = @ + latency,
                                 !.latency = latency,
                                 !.attempts[n].outcome = outcome]
           content == IF outcome = "ok" THEN "text" ELSE "empty"
           routed == [provider |-> routeProvider(rec.requestType, rec.stage),
                      source |-> svc,
                      model |-> ModelOf(rec.requestType, svc),
                      content |-> content, fallback |-> FALSE,
                      originalError |-> NoError]
           returned == [rec EXCEPT !.pc = "done", !.stage = "none",
                                   !.inflight = "none", !.result = routed]
       IN  CASE rec.stage = "primary" /\ PrimarySucceeds(rec.requestType, outcome) ->
                  /\ req' = [req EXCEPT ![r] = returned]
                  /\ RecordMetrics(routed.provider, rec.elapsed, TRUE)
             [] rec.stage = "primary" /\ ~PrimarySucceeds(rec.requestType, outcome) ->
                  /\ req' = [req EXCEPT ![r] = StartCall(rec, "openrouter", "catchall")]
                  /\ UNCHANGED <<services, calls>>
             [] rec.stage = "catchall" /\ outcome # "throw" ->
                  /\ req' = [req EXCEPT ![r] = returned]
                  /\ RecordMetrics(routed.provider, rec.elapsed, TRUE)
             [] rec.stage = "catchall" /\ outcome = "throw" ->
                  /\ req' = [req EXCEPT ![r] =
                        handleRoutingFallback(
                            [rec EXCEPT !.originalError =
                                [type |-> "ApiError", service |-> svc]], 1)]
                  /\ UNCHANGED <<services, calls>>
             [] rec.stage = "fallback" /\ outcome # "throw" ->
                  /\ req' = [req EXCEPT ![r] =
                        [rec EXCEPT !.pc = "done", !.stage = "none", !.inflight = "none",
                                    !.result = [routed EXCEPT !.provider =
                                                                 getFallbackOrder(rec.requestType)[rec.fbIdx],
                                                              !.model = "none",
                                                              !.fallback = TRUE,
                                                              !.originalError = rec.originalError]]]
                  /\ UNCHANGED <<services, calls>>
             [] rec.stage = "fallback" /\ outcome = "throw" ->
                  /\ req' = [req EXCEPT ![r] = handleRoutingFallback(rec, rec.fbIdx + 1)]
                  /\ UNCHANGED <<services, calls>>
    /\ UNCHANGED <<tick, issued, serviceHealth, regLog, definition>>

\* ----------------------------------------------------------- health monitor
\* tick[t] is the position of the t-th run of checkAllServicesHealth: 0 not
\* fired yet, i in 1..3 awaiting the healthCheck of ServiceOrder[i], 4 over.
\* setInterval fires a run whether or not the previous one is over.
TickFires(t) ==
    /\ tick[t] = 0
    /\ \A u \in Ticks : u < t => tick[u] # 0
    /\ tick' = [tick EXCEPT ![t] = 1]
    /\ UNCHANGED <<services, req, issued, serviceHealth, calls, regLog, definition>>

\* the status checkAllServicesHealth stores in serviceHealth for a
\* healthCheck: the one it returned, or "unhealthy" when it threw
StoredStatus(outcome) == IF outcome = "throw" THEN "unhealthy" ELSE outcome

\* variant: a healthCheck that throws leaves the adapter routable
HealthyAfter_ThrowIgnored(outcome) == outcome # "unhealthy"

\* the healthy flag checkAllServicesHealth writes on the adapter record
HealthyAfter(outcome) == IF outcome = "throw" THEN FALSE ELSE outcome = "healthy"

HealthCheckReturns(t, outcome) ==
    /\ tick[t] \in 1..Len(ServiceOrder)
    /\ serviceHealth' = [serviceHealth EXCEPT ![ServiceOrder[tick[t]]] = StoredStatus(outcome)]
    /\ services' = [services EXCEPT ![ServiceOrder[tick[t]]].healthy = HealthyAfter(outcome)]
    /\ tick' = [tick EXCEPT ![t] = @ + 1]
    /\ UNCHANGED <<req, issued, calls, regLog, definition>>

\* Spec has one caller, which issues its next routeRequest once it has
\* taken the outcome of the previous one, and a monitor whose runs do not
\* overlap (a run is over well within the 30 s interval); the adapter
\* calls of a request interleave with the monitor's health checks.
Next ==
    \/ \E r \in Reqs, requestType \in RequestTypes :
          \E payload \in PayloadsFor(requestType) :
             /\ \A q \in Reqs : req[q].pc = "idle"
             /\ RouteRequest(r, requestType, payload)
    \/ \E r \in Reqs : Respond(r)
    \/ \E r \in Reqs, latency \in Latencies :
          \E outcome \in OutcomesOf(req[r].inflight) :
             GenerateReturns(r, outcome, latency)
    \/ \E t \in Ticks :
          /\ \A u \in Ticks : tick[u] \notin 1..Len(ServiceOrder)
          /\ TickFires(t)
    \/ \E t \in Ticks, outcome \in HealthOutcomes : HealthCheckReturns(t, outcome)

Spec == Init /\ [][Next]_vars

\* ----------------------------------------------------------- callers
\* the field of a gateway result that holds the generated text: the first
\* definition of routeMindmapRequest returns the parsed cerebras content
\* as data, every other return spreads the adapter's own response, a chat
\* completion (choices[0].message.content) for cerebras and openrouter and
\* a generated_text for meta-llama
RawShape(result) ==
    CASE result.source = "cerebras" /\ definition = "first" /\ ~result.fallback -> "data"
      [] result.source \in {"cerebras", "openrouter"} -> "choices"
      [] result.source = "meta-llama" -> "generated_text"
      [] OTHER -> "none"

\* data.mindmap of the response of AIController.generateMindmap:
\* result.choices?.[0]?.message?.content || result.generated_text, which is
\* a non-empty string ("text"), the empty string ("") or undefined
DeliveredMindmap(result) ==
    CASE RawShape(result) = "choices" /\ result.content = "text" -> "text"
      [] RawShape(result) = "generated_text" ->
            IF result.content = "text" THEN "text" ELSE ""
      [] OTHER -> "undefined"

\* what ProjectController.generateMindmap does with the result of
\* routeMindmapRequest: without result.data it throws into its catch and
\* answers 500, otherwise updateMindmap stores the data and it answers 200
ProjectGenerateMindmap(result) ==
    IF RawShape(result) = "data" /\ result.content = "text"
    THEN [status |-> 200, mindmap |-> "data", mindmapCompleted |-> TRUE]
    ELSE [status |-> 500, mindmap |-> "none", mindmapCompleted |-> FALSE]

\* the request types the endpoints of AIController route, each after a
\* test of its required input fields
ControllerKinds == {"mindmap", "code", "node-code", "prd"}

\* variant: the missing field is found after the router has been called
RejectMissingInput_AfterRouting(r, requestType) ==
    /\ req[r].pc = "idle"
    /\ issued < MaxRequests
    /\ issued' = issued + 1
    /\ req' = [req EXCEPT ![r] =
                [IdleReq EXCEPT !.pc = "done", !.requestType = requestType,
                                !.error = [type |-> "MissingInput", service |-> "none"]]]
    /\ UNCHANGED <<services, tick, serviceHealth, calls, regLog, definition>>

\* an endpoint of AIController finds its required input field missing and
\* returns res.status(400) before its routeRequest call
RejectMissingInput(r, requestType) ==
    /\ req[r].pc = "idle"
    /\ req' = [req EXCEPT ![r] =
                [IdleReq EXCEPT !.pc = "done", !.requestType = requestType,
                                !.error = [type |-> "MissingInput", service |-> "none"]]]
    /\ UNCHANGED <<services, tick, issued, serviceHealth, calls, regLog, definition>>

\* the HTTP status an endpoint of AIController answers a finished request with
StatusOf(rec) ==
    CASE rec.error.type = "MissingInput" -> 400
      [] rec.error # NoError -> 500
      [] OTHER -> 200

\* SpecController is Spec with the endpoints' input validation in front of
\* the gateway
NextController ==
    \/ Next
    \/ \E r \in Reqs, requestType \in ControllerKinds :
          /\ \A q \in Reqs : req[q].pc = "idle"
          /\ RejectMissingInput(r, requestType)

SpecController == Init /\ [][NextController]_vars

\* SpecMonitor is the health monitor alone, as setInterval runs it: the
\* callback fires every interval whether or not the run before it is over,
\* and no healthCheck call has a timeout
NextMonitor ==
    \/ \E t \in Ticks : TickFires(t)
    \/ \E t \in Ticks, outcome \in HealthOutcomes : HealthCheckReturns(t, outcome)

\* the monitor code of the two definitions of the class is the same
InitMonitor == InitGateway /\ definition \in {"first", "second"}

SpecMonitor == InitMonitor /\ [][NextMonitor]_vars

\* ----------------------------------------------------------- concurrent callers
\* SpecConcurrent has MaxInFlight callers, each with one routeRequest call,
\* whose steps interleave freely: a call is entered while others are at an
\* await. The inputs are one 'mindmap' and one 'code' payload.
ConcurrentInputs ==
    {[requestType |-> "mindmap", payload |-> [priority |-> "speed", complexity |-> "absent"]],
     [requestType |-> "code", payload |-> [priority |-> "absent", complexity |-> "absent"]]}

RouteRequestInFlight(r, requestType, payload) ==
    /\ req[r].pc = "idle"
    /\ \A q \in Reqs : q < r => req[q].pc # "idle"
    /\ issued' = issued + 1
    /\ req' = [req EXCEPT ![r] = EnterRoute(req[r], requestType, payload)]
    /\ UNCHANGED <<services, tick, serviceHealth, calls, regLog, definition>>

NextConcurrent ==
    \/ \E r \in Reqs, input \in ConcurrentInputs :
          RouteRequestInFlight(r, input.requestType, input.payload)
    \/ \E r \in Reqs, latency \in Latencies :
          \E outcome \in OutcomesOf(req[r].inflight) :
             GenerateReturns(r, outcome, latency)

SpecConcurrent == Init /\ [][NextConcurrent]_vars

\* ----------------------------------------------------------- progress
\* SpecLive follows one routeRequest call, of any type and payload, made
\* at any moment of the monitor's runs and so in any health state the
\* runs can produce (the course of a call depends on the gateway's state
\* through the healthy flags only). It assumes that an adapter call that
\* has been made eventually resolves or throws and that the caller
\* eventually makes its call; nothing is assumed of the healthCheck calls,
\* which may stay pending for ever.
GenerateSome ==
    \E r \in Reqs, latency \in Latencies :
        \E outcome \in OutcomesOf(req[r].inflight) :
            GenerateReturns(r, outcome, latency)

RouteSome ==
    \E r \in Reqs, requestType \in RequestTypes :
        \E payload \in PayloadsFor(requestType) :
            /\ issued = 0
            /\ RouteRequest(r, requestType, payload)

NextLive ==
    \/ RouteSome
    \/ GenerateSome
    \/ \E t \in Ticks :
          /\ \A u \in Ticks : tick[u] \notin 1..Len(ServiceOrder)
          /\ TickFires(t)
    \/ \E t \in Ticks, outcome \in HealthOutcomes : HealthCheckReturns(t, outcome)

SpecLive == Init /\ [][NextLive]_vars /\ WF_vars(GenerateSome) /\ WF_vars(RouteSome)

\* the gateway with the second definition of the class loaded
InitSecond == InitGateway /\ definition = "second"

SpecSecond == InitSecond /\ [][Next]_vars

\* ----------------------------------------------------------- registry alone
\* SpecRegistry drives the registry directly, from the empty Map of the
\* constructor (line 381): registerService and updateServiceMetrics are
\* called with any adapter name, registered or not.
RegisterService(name) ==
    /\ Len(regLog) < MaxRegistrations
    /\ services' = [n \in DOMAIN services \cup {name} |->
                        IF n = name THEN registerService(name) ELSE services[n]]
    /\ regLog' = Append(regLog, [name |-> name, error |-> "none"])
    /\ calls' = [calls EXCEPT ![name] = <<>>]
    /\ UNCHANGED <<req, tick, issued, serviceHealth, definition>>

UpdateServiceMetrics(serviceName, responseTime, success) ==
    /\ issued < MaxCalls
    /\ issued' = issued + 1
    /\ RecordMetrics(serviceName, responseTime, success)
    /\ UNCHANGED <<req, tick, serviceHealth, regLog, definition>>

InitRegistry ==
    /\ services = <<>>
    /\ serviceHealth = [name \in ServiceNames |-> NoHealth]
    /\ req = [r \in Reqs |-> IdleReq]
    /\ tick = [t \in Ticks |-> 0]
    /\ issued = 0
    /\ calls = [name \in ServiceNames |-> <<>>]
    /\ regLog = <<>>
    /\ definition = "first"

NextRegistry ==
    \/ \E name \in ServiceNames : RegisterService(name)
    \/ \E name \in ServiceNames, responseTime \in ResponseTimes, success \in BOOLEAN :
          UpdateServiceMetrics(name, responseTime, success)

SpecRegistry == InitRegistry /\ [][NextRegistry]_vars

TypeOK ==
    /\ \A name \in DOMAIN services :
          /\ services[name].healthy \in BOOLEAN
          /\ services[name].requestCount \in 0..(MaxRequests + MaxCalls)
          /\ services[name].errors \in 0..(MaxRequests + MaxCalls)
    /\ \A r \in Reqs : req[r].pc \in {"idle", "calling", "done"}
    /\ \A t \in Ticks : tick[t] \in 0..(Len(ServiceOrder) + 1)

\* =================================================================
\* Properties
\* =================================================================
Attempted(rec) == [i \in 1..Len(rec.attempts) |-> rec.attempts[i].service]

CompletedOn(rec, name) ==
    Cardinality({i \in 1..Len(rec.attempts) :
                    rec.attempts[i].service = name /\ rec.attempts[i].outcome # "pending"})

AllThrew(rec) == \A i \in 1..Len(rec.attempts) : rec.attempts[i].outcome = "throw"

Resolved(rec) == rec.pc = "done" /\ rec.result # NoResult /\ rec.error = NoError

RejectedAllFailed(rec) ==
    rec.pc = "done" /\ rec.result = NoResult /\ rec.error.type = "AllServicesFailed"

\* C1: every adapter attempt of a routeRequest call, successful or thrown,
\* is recorded against the adapter tried before the call goes on: in the
\* step in which an attempt on an adapter completes, that adapter's
\* requestCount grows by exactly one.
C1_EveryAttemptRecorded ==
    [][\A r \in Reqs : \A name \in ServiceNames :
          CompletedOn(req'[r], name) = CompletedOn(req[r], name) + 1
              => services'[name].requestCount = services[name].requestCount + 1]_vars

\* C2: no single adapter's error escapes routeRequest: a finished call has
\* either resolved to a result or rejected with the aggregate "all services
\* failed" error, and it rejects only once handleRoutingFallback has walked
\* the whole fallback order of the request type, every candidate it called
\* having thrown.
C2_OnlyAggregateFailureEscapes ==
    \A r \in Reqs : req[r].pc = "done" =>
        \/ Resolved(req[r])
        \/ /\ RejectedAllFailed(req[r])
           /\ [i \in 1..Len(req[r].walked) |-> req[r].walked[i].service]
                 = getFallbackOrder(req[r].requestType)
           /\ \A i \in 1..Len(req[r].walked) :
                 req[r].walked[i].disposition = "called" =>
                    \E j \in 1..Len(req[r].attempts) :
                       /\ req[r].attempts[j].service = req[r].walked[i].service
                       /\ req[r].attempts[j].stage = "fallback"
                       /\ req[r].attempts[j].outcome = "throw"

\* a call rejected after both fallback candidates were called and threw
C2_Witness ==
    \E r \in Reqs :
        /\ RejectedAllFailed(req[r])
        /\ Len(req[r].walked) = 2
        /\ \A i \in 1..2 : req[r].walked[i].disposition = "called"

\* C3: if every adapter call of a routeRequest call throws, the call fails
\* with the all-services-failed error; and a call that resolves never
\* resolves to a partial or undefined result: it carries a provider and a
\* payload.
C3_AllThrowRejects ==
    \A r \in Reqs : req[r].pc = "done" =>
        /\ AllThrew(req[r]) => RejectedAllFailed(req[r])
        /\ ~RejectedAllFailed(req[r]) =>
              /\ req[r].error = NoError
              /\ req[r].result.provider \in ServiceNames
              /\ req[r].result.source \in ServiceNames
              /\ req[r].result.content \in {"text", "empty"}

\* a code request all four of whose adapter calls threw, rejected
C3_Witness ==
    \E r \in Reqs :
        /\ req[r].requestType = "code"
        /\ Len(req[r].attempts) = 4
        /\ AllThrew(req[r])
        /\ RejectedAllFailed(req[r])

\* C4: a mindmap request with priority "speed" that finds cerebras healthy,
\* whose cerebras call throws and whose openrouter call then succeeds,
\* returns a result that reports fallback = true, the attempted providers
\* being cerebras then openrouter.
C4_FallbackReported ==
    \A r \in Reqs :
        ( /\ req[r].pc = "done"
          /\ req[r].requestType = "mindmap"
          /\ req[r].payload.priority = "speed"
          /\ Len(req[r].attempts) = 2
          /\ req[r].attempts[1] = [service |-> "cerebras", stage |-> "primary",
                                   healthy |-> TRUE, outcome |-> "throw"]
          /\ req[r].attempts[2].service = "openrouter"
          /\ req[r].attempts[2].outcome = "ok" )
        => /\ Resolved(req[r])
           /\ req[r].result.fallback = TRUE
           /\ Attempted(req[r]) = <<"cerebras", "openrouter">>

\* C5: within one routeRequest call each adapter is attempted at most once;
\* a code request whose adapter calls all throw rejects after exactly two
\* attempts.
C5_EachAdapterAtMostOnce ==
    \A r \in Reqs :
        /\ \A i, j \in 1..Len(req[r].attempts) :
              i # j => req[r].attempts[i].service # req[r].attempts[j].service
        /\ ( /\ req[r].pc = "done"
             /\ req[r].requestType = "code"
             /\ ComplexityOf(req[r].payload, "medium") # "low"
             /\ req[r].attempts # <<>>
             /\ req[r].attempts[1].service = "meta-llama"
             /\ AllThrew(req[r]) )
           => RejectedAllFailed(req[r]) /\ Len(req[r].attempts) = 2

\* C6: the first attempt of a request never goes to an adapter whose
\* healthy flag is false at the moment of the attempt, the paths that go
\* straight to openrouter included.
C6_PrimaryNeverUnhealthy ==
    \A r \in Reqs : req[r].attempts # <<>> => req[r].attempts[1].healthy

\* C7: a mindmap request with priority "speed" issued while cerebras is
\* marked healthy invokes cerebras first, whatever the metrics and the
\* health of the other adapters.
C7_SpeedMindmapStartsAtCerebras ==
    [][\A r \in Reqs :
          ( /\ req[r].pc = "idle"
            /\ req'[r].pc # "idle"
            /\ req'[r].requestType = "mindmap"
            /\ req'[r].payload.priority = "speed"
            /\ services["cerebras"].healthy )
          => /\ Len(req'[r].attempts) = 1
             /\ req'[r].attempts[1].service = "cerebras"
             /\ req'[r].inflight = "cerebras"]_vars

\* a speed mindmap request whose first call is on cerebras while the other
\* two adapters are marked unhealthy
C7_Witness ==
    \E r \in Reqs :
        /\ req[r].requestType = "mindmap"
        /\ req[r].payload.priority = "speed"
        /\ Len(req[r].attempts) = 1
        /\ req[r].attempts[1].service = "cerebras"
        /\ req[r].attempts[1].outcome = "pending"
        /\ ~services["openrouter"].healthy
        /\ ~services["meta-llama"].healthy

\* C8: the provider field of a returned result names the adapter whose call
\* produced the returned payload, the last one attempted; when the first
\* attempted adapter succeeds the fallback flag is false.
C8_ProviderNamesServingAdapter ==
    \A r \in Reqs : Resolved(req[r]) =>
        LET n == Len(req[r].attempts) IN
        /\ n >= 1
        /\ req[r].attempts[n].outcome # "throw"
        /\ req[r].result.source = req[r].attempts[n].service
        /\ req[r].result.provider = req[r].result.source
        /\ n = 1 => req[r].result.fallback = FALSE

\* a speed mindmap request served by its first attempt, on cerebras
C8_Witness ==
    \E r \in Reqs :
        /\ Resolved(req[r])
        /\ req[r].requestType = "mindmap"
        /\ req[r].payload.priority = "speed"
        /\ Len(req[r].attempts) = 1
        /\ req[r].attempts[1].healthy
        /\ req[r].result.provider = "cerebras"
        /\ req[r].result.fallback = FALSE

\* C9: routeRequest with an unrecognised request type rejects without a
\* call to any adapter and leaves every adapter record unchanged.
C9_UnknownKindCallsNoAdapter ==
    [][\A r \in Reqs :
          (req[r].pc = "idle" /\ req'[r].requestType = "unknown-kind")
          => /\ req'[r].pc = "done"
             /\ req'[r].result = NoResult
             /\ req'[r].error # NoError
             /\ req'[r].attempts = <<>>
             /\ req'[r].inflight = "none"
             /\ services' = services]_vars

\* a rejected request of unknown type, issued while openrouter was healthy
C9_Witness ==
    \E r \in Reqs :
        /\ req[r].requestType = "unknown-kind"
        /\ req[r].pc = "done"
        /\ req[r].error # NoError
        /\ req[r].attempts = <<>>
        /\ req[r].walked = <<[service |-> "openrouter", disposition |-> "nocall"]>>

\* C10: an unrecognised request type is surfaced as the unknown-kind error
\* itself, without entering the fallback path: the caller does not receive
\* the aggregate all-services-failed error.
C10_UnknownKindSurfaced ==
    \A r \in Reqs :
        (req[r].pc = "done" /\ req[r].requestType = "unknown-kind")
        => req[r].error.type = "UnknownRequestType" /\ req[r].walked = <<>>

\* C11: when every candidate has failed, the aggregate failure carries the
\* error of the first adapter that failed in this request, and the list of
\* the provider names attempted.
C11_AggregateCarriesFirstErrorAndAttempts ==
    \A r \in Reqs :
        (RejectedAllFailed(req[r]) /\ req[r].attempts # <<>>)
        => LET m == AggregateMessage(req[r])
           IN  /\ m.originalError.service = req[r].attempts[1].service
               /\ "attempted" \in DOMAIN m
               /\ m.attempted = Attempted(req[r])

\* C12: isServiceHealthy(name) holds exactly when the most recent
\* healthCheck of the adapter returned the status 'healthy' (a check that
\* threw counts as not healthy); an adapter never checked is healthy, as
\* registered. So a later successful check flips an unhealthy adapter back.
C12_HealthyIffLastCheckHealthy ==
    \A name \in ServiceNames :
        isServiceHealthy(name) <=> serviceHealth[name] \in {"healthy", NoHealth}

\* openrouter was attempted while flagged unhealthy, and a later run of the
\* monitor has found it healthy and flagged it healthy again
C12_Witness ==
    /\ tick[1] = Len(ServiceOrder) + 1
    /\ tick[2] > 1
    /\ serviceHealth["openrouter"] = "healthy"
    /\ isServiceHealthy("openrouter")
    /\ \E r \in Reqs : \E i \in 1..Len(req[r].attempts) :
            /\ req[r].attempts[i].service = "openrouter"
            /\ ~req[r].attempts[i].healthy

\* the adapters other than openrouter that the routing policy of a request
\* type can start with
Specialised(requestType) ==
    CASE requestType = "mindmap" -> {"cerebras"}
      [] requestType \in {"code", "node-code", "prd"} -> {"meta-llama"}
      [] OTHER -> {}

C14_CodeStartsAtMetaLlamaUnlessLow ==
    [][\A r \in Reqs :
          /\ (req[r].pc = "idle" /\ req'[r].requestType \in {"code", "node-code"})
             => /\ Len(req'[r].attempts) = 1
                /\ req'[r].attempts[1].service =
                      IF isServiceHealthy("meta-llama") /\ req'[r].payload.complexity # "low"
                      THEN "meta-llama" ELSE "openrouter"
          /\ ( /\ req[r].requestType \in {"code", "node-code"}
               /\ Len(req[r].attempts) = 1
               /\ req[r].attempts[1].service = "meta-llama"
               /\ req[r].attempts[1].outcome = "pending"
               /\ req'[r].attempts # <<>>
               /\ req'[r].attempts[1].outcome = "throw" )
             => /\ Len(req'[r].attempts) = 2
                /\ req'[r].attempts[2].service = "openrouter"
                /\ req'[r].inflight = "openrouter"]_vars

\* a 'node-code' request whose meta-llama attempt threw and which is now
\* being attempted on openrouter
C14_Witness ==
    \E r \in Reqs :
        /\ req[r].requestType = "node-code"
        /\ req[r].payload.complexity # "low"
        /\ Len(req[r].attempts) = 2
        /\ req[r].attempts[1].service = "meta-llama"
        /\ req[r].attempts[1].outcome = "throw"
        /\ req[r].attempts[2].service = "openrouter"
        /\ req[r].attempts[2].outcome = "pending"

\* C15: a 'prd' request is first attempted on meta-llama exactly when its
\* complexity is 'comprehensive' and meta-llama is healthy; in every other
\* case, an absent complexity included, it is first attempted on openrouter.
C15_PrdStartsAtMetaLlamaIffComprehensive ==
    [][\A r \in Reqs :
          (req[r].pc = "idle" /\ req'[r].requestType = "prd")
          => /\ Len(req'[r].attempts) = 1
             /\ req'[r].attempts[1].service \in {"meta-llama", "openrouter"}
             /\ req'[r].attempts[1].service = "meta-llama"
                   <=> ( /\ req'[r].payload.complexity = "comprehensive"
                         /\ isServiceHealthy("meta-llama") )]_vars

\* a 'prd' request without a complexity, just issued while meta-llama is
\* healthy, and being attempted on openrouter
C15_Witness ==
    \E r \in Reqs :
        /\ req[r].requestType = "prd"
        /\ req[r].payload.complexity = "absent"
        /\ isServiceHealthy("meta-llama")
        /\ Len(req[r].attempts) = 1
        /\ req[r].attempts[1].service = "openrouter"
        /\ req[r].attempts[1].outcome = "pending"

\* C16: for a 'mindmap' request, any failure of the cerebras attempt, a
\* thrown error or a response that carries no content, is followed by an
\* openrouter attempt: the failure or the empty result is not what the
\* caller gets.
C16_CerebrasFailureGoesToOpenrouter ==
    \A r \in Reqs :
        LET a == req[r].attempts
        IN  ( /\ req[r].requestType = "mindmap"
              /\ a # <<>>
              /\ a[1].service = "cerebras"
              /\ a[1].outcome \in {"throw", "nocontent"} )
            => /\ Len(a) >= 2
               /\ a[2].service = "openrouter"
               /\ ~(req[r].result.source = "cerebras" /\ req[r].result.content = "empty")

\* C17: the latency recorded for an adapter is the duration of that
\* adapter's own attempt, not of the whole request: when a request records
\* a response time for an adapter, the adapter's average moves by the
\* latency of the attempt that has just returned.
C17_RecordedLatencyIsSingleAttempt ==
    [][\A r \in Reqs : \A name \in ServiceNames :
          ( /\ req[r].pc = "calling"
            /\ req'[r].pc = "done"
            /\ services'[name].requestCount = services[name].requestCount + 1 )
          => services'[name].avgResponseTime =
                (services[name].avgResponseTime + req'[r].latency * Scale) \div 2]_vars

\* the fold avg_i = (avg_(i-1) + L_i) / 2 from avg_0 = 0 over the response
\* times of a sequence of calls, in units of 1/Scale
RECURSIVE FoldAvg(_)
FoldAvg(log) ==
    IF log = <<>> THEN 0
    ELSE (FoldAvg(SubSeq(log, 1, Len(log) - 1)) + log[Len(log)].responseTime * Scale) \div 2

\* C18: after updateServiceMetrics has been called N times for an adapter
\* with the response times L1..LN, the adapter's avgResponseTime is the
\* fold avg_i = (avg_(i-1) + L_i) / 2 from 0 and its requestCount is N,
\* whatever the success flags and whatever the calls for other adapters.
C18_AverageIsHalvingFold ==
    \A name \in DOMAIN services :
        /\ services[name].requestCount = Len(calls[name])
        /\ services[name].avgResponseTime = FoldAvg(calls[name])

\* an adapter with two calls of different response times, one of them not
\* a success, and another adapter with a call of its own
C18_Witness ==
    \E name \in DOMAIN services : \E other \in DOMAIN services \ {name} :
        /\ Len(calls[name]) = 2
        /\ calls[name][1].responseTime # calls[name][2].responseTime
        /\ ~calls[name][1].success
        /\ calls[name][2].success
        /\ Len(calls[other]) = 1

\* C19: registerService on a name not yet registered adds a record with
\* healthy = true and zero counters; on a name already registered it fails
\* with a duplicate-provider error and leaves the existing record unchanged.
C19_DuplicateRegistrationRejected ==
    [][Len(regLog') = Len(regLog) + 1
       => LET call == regLog'[Len(regLog')]
          IN  IF call.name \in DOMAIN services
              THEN /\ call.error = "DuplicateProvider"
                   /\ services' = services
              ELSE /\ call.error = "none"
                   /\ DOMAIN services' = DOMAIN services \cup {call.name}
                   /\ services'[call.name] =
                         [healthy |-> TRUE, requestCount |-> 0,
                          avgResponseTime |-> 0, errors |-> 0]]_vars

\* C20: the adapter attempts of one routeRequest call are strictly
\* sequential: at most one attempt of a request is in flight, it is the
\* latest one, and every earlier attempt has returned or thrown.
C20_AttemptsSequential ==
    \A r \in Reqs :
        LET a == req[r].attempts
        IN  /\ \A i \in 1..Len(a) : a[i].outcome = "pending" => i = Len(a)
            /\ req[r].pc = "calling"
                  <=> (a # <<>> /\ a[Len(a)].outcome = "pending")
            /\ req[r].pc = "calling" => req[r].inflight = a[Len(a)].service
            /\ req[r].pc # "calling" => req[r].inflight = "none"

\* a request whose first attempt has thrown and whose second attempt is in
\* flight
C20_Witness ==
    \E r \in Reqs :
        /\ Len(req[r].attempts) = 2
        /\ req[r].attempts[1].outcome = "throw"
        /\ req[r].attempts[2].outcome = "pending"
        /\ req[r].pc = "calling"

\* C25: the fields of an adapter record have disjoint writers: a step of
\* a routeRequest call changes no adapter's healthy flag and no stored
\* health status, however often the adapter throws, and a step of the
\* health monitor changes no requestCount, errors or avgResponseTime.
C25_DisjointWriters ==
    [][/\ req' # req
          => /\ serviceHealth' = serviceHealth
             /\ \A name \in ServiceNames :
                   services'[name].healthy = services[name].healthy
       /\ tick' # tick
          => \A name \in ServiceNames :
                /\ services'[name].requestCount = services[name].requestCount
                /\ services'[name].errors = services[name].errors
                /\ services'[name].avgResponseTime = services[name].avgResponseTime]_vars

\* openrouter has thrown twice in one request and is still flagged
\* healthy, after a complete run of the monitor
C25_Witness ==
    \E r \in Reqs :
        /\ Len(req[r].attempts) >= 2
        /\ \A i \in 1..2 : /\ req[r].attempts[i].service = "openrouter"
                            /\ req[r].attempts[i].outcome = "throw"
        /\ isServiceHealthy("openrouter")
        /\ tick[1] = Len(ServiceOrder) + 1

\* C26 as stated: every adapter's errors counter is 0 and the errorRate
\* reported for it is always '0%'.
C26_ErrorRateAlwaysZeroPercent ==
    \A name \in ServiceNames :
        services[name].errors = 0 /\ errorRate(services[name]) = "0%"

\* C26 amended: every adapter's errors counter is 0; the errorRate
\* reported for it is '0%' while it has no recorded request and '0.00%'
\* once it has one.
C26_ErrorsAlwaysZero ==
    \A name \in ServiceNames :
        /\ services[name].errors = 0
        /\ errorRate(services[name]) =
              IF services[name].requestCount = 0 THEN "0%" ELSE "0.00%"

\* cerebras threw and openrouter served the request: openrouter has a
\* recorded request, no adapter has an error
C26_Witness ==
    /\ services["openrouter"].requestCount > 0
    /\ errorRate(services["openrouter"]) = "0.00%"
    /\ \E r \in Reqs : \E i \in 1..Len(req[r].attempts) :
            req[r].attempts[i].outcome = "throw"

\* C29: handleRoutingFallback never calls an adapter whose healthy flag
\* is false at the moment it is reached; when every candidate of the
\* fallback order is unhealthy the call rejects with the
\* all-services-failed error and no adapter call is made by the walk.
C29_FallbackSkipsUnhealthy ==
    \A r \in Reqs :
        LET a == req[r].attempts
            w == req[r].walked
        IN  /\ \A i \in 1..Len(a) : a[i].stage = "fallback" => a[i].healthy
            /\ \A i \in 1..Len(w) : w[i].disposition = "called"
                   => \E j \in 1..Len(a) : /\ a[j].stage = "fallback"
                                            /\ a[j].service = w[i].service
            /\ ( /\ w # <<>>
                  /\ Len(w) = Len(getFallbackOrder(req[r].requestType))
                  /\ \A i \in 1..Len(w) : w[i].disposition = "unhealthy" )
               => /\ RejectedAllFailed(req[r])
                  /\ \A i \in 1..Len(a) : a[i].stage # "fallback"

\* a 'code' request rejected after its openrouter attempt threw and both
\* fallback candidates were found unhealthy
C29_Witness ==
    \E r \in Reqs :
        /\ req[r].requestType = "code"
        /\ RejectedAllFailed(req[r])
        /\ req[r].attempts # <<>>
        /\ Len(req[r].walked) = 2
        /\ \A i \in 1..2 : req[r].walked[i].disposition = "unhealthy"

\* C23: for every successful 'mindmap' request, whichever adapter served
\* it and whatever shape its response had, the result delivered to the
\* caller exposes the generated text as one flat string, and a response
\* without content yields the empty string, never undefined.
C23_DeliveredContentIsFlatString ==
    \A r \in Reqs :
        (req[r].requestType = "mindmap" /\ Resolved(req[r]))
        => /\ DeliveredMindmap(req[r].result) \in {"text", ""}
           /\ req[r].result.content = "empty" => DeliveredMindmap(req[r].result) = ""

\* C30: for a project mindmap generation, which calls routeMindmapRequest
\* with no priority, whenever the gateway returns a successful response
\* of cerebras or of openrouter, the content is stored on the project
\* with mindmapCompleted = true and the endpoint answers with success.
\* (The results of routeMindmapRequest are those of the 'mindmap' requests
\* that did not go through handleRoutingFallback.)
C30_ProjectMindmapStored ==
    \A r \in Reqs :
        ( /\ req[r].requestType = "mindmap"
          /\ req[r].payload.priority = "absent"
          /\ Resolved(req[r])
          /\ ~req[r].result.fallback
          /\ req[r].result.content = "text" )
        => /\ ProjectGenerateMindmap(req[r].result).status = 200
           /\ ProjectGenerateMindmap(req[r].result).mindmapCompleted

\* C24: a generation request that lacks its required input field is
\* answered with status 400 before the router is invoked: no routeRequest
\* call and no adapter call is made, and no metric changes.
C24_MissingInputRejectedBeforeRouting ==
    [][\A r \in Reqs :
          (req[r].pc = "idle" /\ req'[r].error.type = "MissingInput")
          => /\ req'[r].pc = "done"
             /\ StatusOf(req'[r]) = 400
             /\ req'[r].attempts = <<>>
             /\ req'[r].walked = <<>>
             /\ req'[r].inflight = "none"
             /\ issued' = issued
             /\ services' = services
             /\ calls' = calls]_vars

\* a request rejected for its missing input after an earlier request was
\* served and recorded by openrouter
C24_Witness ==
    /\ services["openrouter"].requestCount = 1
    /\ \E r \in Reqs :
          /\ req[r].pc = "done"
          /\ req[r].error.type = "MissingInput"
          /\ StatusOf(req[r]) = 400

\* C27: the runs of the health monitor never overlap: at most one run of
\* checkAllServicesHealth is in progress at any time (so that a late
\* healthCheck result of an older run cannot overwrite the flag a newer
\* run has written).
C27_TicksNeverOverlap ==
    Cardinality({t \in Ticks : tick[t] \in 1..Len(ServiceOrder)}) <= 1

\* the requests that have made their updateServiceMetrics call
Recorded == {r \in Reqs : Resolved(req[r]) /\ ~req[r].result.fallback}

RECURSIVE SumCalls(_)
SumCalls(names) ==
    IF names = {} THEN 0
    ELSE LET name == CHOOSE n \in names : TRUE
         IN  Len(calls[name]) + SumCalls(names \ {name})

\* C21: under any interleaving of routeRequest calls in flight together no
\* metric update is lost: each adapter's requestCount is the number of
\* updateServiceMetrics calls made for it, and totalRequests of the
\* gateway status is the sum of these, one per request that made the call.
C21_NoMetricUpdateLost ==
    /\ \A name \in ServiceNames : services[name].requestCount = Len(calls[name])
    /\ totalRequests = SumCalls(ServiceNames)
    /\ totalRequests = Cardinality(Recorded)

\* two requests in flight together have both been served and recorded by
\* openrouter after their first adapter threw
C21_Witness ==
    /\ services["openrouter"].requestCount = 2
    /\ totalRequests = 2
    /\ \A r \in 1..2 : /\ Resolved(req[r])
                        /\ Len(req[r].attempts) = 2
                        /\ req[r].attempts[1].outcome = "throw"
    /\ req[1].requestType # req[2].requestType

\* a run of the health monitor is awaiting a healthCheck
TickInProgress == \E t \in Ticks : tick[t] \in 1..Len(ServiceOrder)

\* C22: the health monitor never blocks routing: a step of a routeRequest
\* call starts or advances no healthCheck, and a run of the monitor that
\* is in progress, even for ever, prevents neither a call in flight nor a
\* new call from completing.
C22_MonitorNeverBlocksRouting ==
    /\ [][req' # req => tick' = tick]_vars
    /\ \A r \in Reqs :
          (TickInProgress /\ req[r].pc = "calling") ~> (req[r].pc = "done")
    /\ (TickInProgress /\ issued = 0)
          ~> (\E r \in Reqs : req[r].pc = "done")

\* a request has completed after two attempts and the first healthCheck
\* of the first run of the monitor is still pending
C22_Witness ==
    /\ tick[1] = 1
    /\ \E r \in Reqs : /\ req[r].pc = "done"
                        /\ Len(req[r].attempts) = 2

\* the most adapter calls one routeRequest call can make: two in its
\* route*Request method and one for each candidate of its fallback order
AttemptsBound(requestType) == 2 + Len(getFallbackOrder(requestType))

\* C28: provided every adapter call eventually resolves or throws, every
\* routeRequest call eventually returns or rejects, after a bounded
\* number of adapter attempts, for every kind, payload and health state.
C28_EveryRequestCompletes ==
    /\ [](\A r \in Reqs : Len(req[r].attempts) <= AttemptsBound(req[r].requestType))
    /\ \A r \in Reqs : (req[r].pc = "calling") ~> (req[r].pc = "done")

\* a 'code' request that has completed after as many attempts as the bound
C28_Witness ==
    \E r \in Reqs :
        /\ req[r].requestType = "code"
        /\ req[r].pc = "done"
        /\ Len(req[r].attempts) = AttemptsBound("code")

====
